---- MODULE Spec2Model ----
(***************************************************************************)
(* Model of convolution_demo.py: the data/kernel generator                 *)
(* (create_demo_data), the animation set-up (convolution_animation), the   *)
(* per-frame callback (animate), the repeating frame sequence of           *)
(* FuncAnimation and the command-line entry point.                         *)
(*                                                                         *)
(* Arrays are 0-indexed functions, as in the source.  A float array is a   *)
(* record [num |-> f, den |-> d] whose element i is the rational           *)
(* f[i] / d; np.exp is evaluated in fixed point at scale ExpScale, and     *)
(* every other operation (sum, division, product, convolution) is exact    *)
(* on these rationals.  IEEE-754 rounding is below the model's resolution. *)
(***************************************************************************)
EXTENDS Integers, FiniteSets, Sequences, TLC

VARIABLES
    pc,                 \* position of the main script
    argv,               \* the value given to --kernel on the command line
    args_kernel,        \* args.kernel after parse_args
    exit_status,        \* process exit status, NoStatus while running
    main_signal,        \* signal of the __main__ block (line 175)
    kernels,            \* kernels of the __main__ block (line 175)
    kernel_name,        \* argument of convolution_animation
    kernel,             \* argument of convolution_animation
    signal,             \* signal of convolution_animation (line 63)
    convolution,        \* np.convolve result (line 67)
    window_patch,       \* Rectangle: x and width
    kernel_line,        \* artist data: x and y
    conv_line,          \* artist data: x and y
    current_point,      \* artist data: x and y
    positioned_kernel,  \* animate's local of the last frame drawn
    pos,                \* frame index of the last callback, NoFrame before
    frame_seq,          \* next frame index FuncAnimation will deliver
    passes,             \* completed passes over the frames (saturating)
    create_calls,       \* number of create_demo_data calls so far
    conv_calls,         \* number of np.convolve calls so far
    display             \* the display window: "none", "open" or "closed"

vars == <<pc, argv, args_kernel, exit_status, main_signal, kernels,
          kernel_name, kernel, signal, convolution, window_patch,
          kernel_line, conv_line, current_point, positioned_kernel, pos,
          frame_seq, passes, create_calls, conv_calls, display>>

---------------------------------------------------------------------------
(* Bounds of the model *)

\* how many unrecognized --kernel values the command line may carry
NumBadValues == 2
\* completed passes are counted up to this number
MaxPasses == 2
\* fixed-point scale at which np.exp is evaluated
ExpScale == 10000

---------------------------------------------------------------------------
(* Program constants *)

SignalLen == 100
kernel_size == 15
boxcar_size == 9
single_spikes == {15, 35, 75}
burst1 == {48, 50, 52}
burst2 == {85, 87, 88, 90}
\* 1.2, the display scale of the positioned kernel, as ScaleNum / ScaleDen
ScaleNum == 6
ScaleDen == 5
\* the exit status of argparse's error()
ArgparseErrorStatus == 2

Choices == {"boxcar", "gaussian", "exponential"}
kernel_map == [c \in Choices |->
                 CASE c = "boxcar" -> "Boxcar (Uniform)"
                   [] c = "gaussian" -> "Gaussian"
                   [] c = "exponential" -> "Exponential (Calcium-like)"]

Absent == "<absent>"
BadValueNames == <<"unknown", "Boxcar", "box", "">>
BadValues == {BadValueNames[i] : i \in 1..NumBadValues}
Args == Choices \cup BadValues \cup {Absent}

NoStatus == -1
NoFrame == -1
Null == [num |-> [i \in {} |-> 0], den |-> 0]
NoData == [x |-> [i \in {} |-> 0], y |-> Null]

---------------------------------------------------------------------------
(* Arithmetic helpers *)

Max(a, b) == IF a >= b THEN a ELSE b
Min(a, b) == IF a <= b THEN a ELSE b
Abs(a) == IF a < 0 THEN -a ELSE a

RECURSIVE GCD(_, _)
GCD(a, b) == IF b = 0 THEN a ELSE GCD(b, a % b)

\* len(a)
Length(f) == Cardinality(DOMAIN f)

RECURSIVE SumRange(_, _, _)
\* f[lo] + ... + f[hi-1], summed by halves
SumRange(f, lo, hi) ==
    IF hi <= lo THEN 0
    ELSE IF hi = lo + 1 THEN f[lo]
    ELSE LET mid == (lo + hi) \div 2
         IN  SumRange(f, lo, mid) + SumRange(f, mid, hi)

\* f[0] + ... + f[n-1]
SumTo(f, n) == SumRange(f, 0, n)

\* range(n)
Range(n) == [i \in 0..(n - 1) |-> i]

\* np.zeros(n)
Zeros(n) == [num |-> [i \in 0..(n - 1) |-> 0], den |-> 1]

\* a[idx] = 1.0 for an index list, a[:n] = 1.0 for a slice
SetOnes(a, idx) ==
    [num |-> [i \in DOMAIN a.num |-> IF i \in idx THEN a.den ELSE a.num[i]],
     den |-> a.den]

\* a.sum(), a rational <<numerator, denominator>>
ArraySum(a) == <<SumTo(a.num, Length(a.num)), a.den>>

\* a / s for a scalar s = <<sn, sd>>
DivScalar(a, s) ==
    LET g == GCD(a.den, s[2])
    IN  [num |-> [i \in DOMAIN a.num |-> a.num[i] * (s[2] \div g)],
         den |-> (a.den \div g) * s[1]]

\* a * (n / d)
MulScalar(a, n, d) ==
    [num |-> [i \in DOMAIN a.num |-> a.num[i] * n], den |-> a.den * d]

RECURSIVE ExpSeries(_, _, _, _, _)
\* the series 1 + t + t^2/2! + ... of exp(t), t = a/b >= 0, at scale ExpScale
ExpSeries(a, b, n, term, acc) ==
    IF term = 0 THEN acc
    ELSE LET next == (term * a) \div (b * n)
         IN  ExpSeries(a, b, n + 1, next, acc + next)

\* np.exp(-(a/b)) at scale ExpScale, a/b >= 0
ExpNeg(a, b) == (ExpScale * ExpScale) \div ExpSeries(a, b, 1, ExpScale, ExpScale)

---------------------------------------------------------------------------
(* create_demo_data *)

\* the signal with the last spike of burst 2 left out
demo_signal_short ==
    SetOnes(SetOnes(SetOnes(Zeros(SignalLen), single_spikes), burst1),
            burst2 \ {90})

\* lines 17-29
demo_signal ==
    SetOnes(SetOnes(SetOnes(Zeros(SignalLen), single_spikes), burst1), burst2)

\* an array left as it is
NormalizeSkip(a) == a

\* a / a.sum()
Normalize(a) == DivScalar(a, ArraySum(a))

\* a boxcar that is flat over the whole kernel width
boxcar_full == Normalize(SetOnes(Zeros(kernel_size), 0..(kernel_size - 1)))

\* lines 34-37
boxcar == Normalize(SetOnes(Zeros(kernel_size), 0..(boxcar_size - 1)))

\* np.linspace(-2, 2, kernel_size)[i] = -2 + i * 4/(kernel_size - 1),
\* as <<numerator, denominator>>
kernel_x(i) == <<(-2) * (kernel_size - 1) + 4 * i, kernel_size - 1>>

gaussian ==
    Normalize([num |-> [i \in 0..(kernel_size - 1) |->
                          ExpNeg(kernel_x(i)[1] * kernel_x(i)[1],
                                 kernel_x(i)[2] * kernel_x(i)[2])],
               den |-> ExpScale])

exponential ==
    Normalize([num |-> [i \in 0..(kernel_size - 1) |-> ExpNeg(i, 3)],
               den |-> ExpScale])

demo_kernels ==
    [n \in {"Boxcar (Uniform)", "Gaussian", "Exponential (Calcium-like)"} |->
        CASE n = "Boxcar (Uniform)" -> boxcar
          [] n = "Gaussian" -> gaussian
          [] n = "Exponential (Calcium-like)" -> exponential]

create_demo_data == [signal |-> demo_signal, kernels |-> demo_kernels]

---------------------------------------------------------------------------
(* numpy operations used by convolution_animation and animate *)

\* np.flip(a)
Flip(a) ==
    [num |-> [i \in DOMAIN a.num |-> a.num[Length(a.num) - 1 - i]],
     den |-> a.den]

\* a[lo:hi] for lo, hi >= 0: both ends are clamped to len(a)
Slice(a, lo, hi) ==
    LET n == Length(a.num)
        l == Min(lo, n)
        h == Max(l, Min(hi, n))
    IN  [num |-> [i \in 0..(h - l - 1) |-> a.num[l + i]], den |-> a.den]

\* dst[lo:hi] = src: the lengths must agree unless src has length 1, which
\* is broadcast; otherwise numpy raises ValueError
SliceAssign(dst, lo, hi, src) ==
    LET n == Length(dst.num)
        l == Min(lo, n)
        h == Max(l, Min(hi, n))
        m == Length(src.num)
    IN  IF m = h - l \/ m = 1
        THEN [ok |-> TRUE,
              value |->
                [num |-> [i \in DOMAIN dst.num |->
                            IF l <= i /\ i < h
                            THEN src.num[IF m = 1 THEN 0 ELSE i - l] * dst.den
                            ELSE dst.num[i] * src.den],
                 den |-> dst.den * src.den]]
        ELSE [ok |-> FALSE, value |-> dst]

RECURSIVE ConvolveTerms(_, _, _, _, _)
\* the sum over j in lo..hi-1 of a[j] * v[n - j], terms with n - j outside
\* v left out: entry n of the full discrete convolution when lo..hi-1 is
\* all of a
ConvolveTerms(a, v, n, lo, hi) ==
    IF hi <= lo THEN 0
    ELSE IF hi = lo + 1
         THEN IF 0 <= n - lo /\ n - lo < Length(v) THEN a[lo] * v[n - lo] ELSE 0
    ELSE ConvolveTerms(a, v, n, lo, (lo + hi) \div 2)
         + ConvolveTerms(a, v, n, (lo + hi) \div 2, hi)

\* the same with v reversed first (np.correlate)
ConvolveSameUnflipped(a, v) ==
    [num |-> [i \in DOMAIN a.num |->
                ConvolveTerms(a.num, Flip(v).num,
                              i + (Length(v.num) - 1) \div 2, 0, Length(a.num))],
     den |-> a.den * v.den]

\* np.convolve(a, v, mode="same") for len(a) >= len(v): the centre len(a)
\* entries of the full convolution
ConvolveSame(a, v) ==
    [num |-> [i \in DOMAIN a.num |->
                ConvolveTerms(a.num, v.num,
                              i + (Length(v.num) - 1) \div 2, 0, Length(a.num))],
     den |-> a.den * v.den]

---------------------------------------------------------------------------
(* animate(frame), the closure over signal, kernel, kernel_size, convolution *)

\* window_start without the clamp at the left edge
WindowStartUnclamped(p, ksize) == p - ksize \div 2

\* line 128
WindowStart(p, ksize) == Max(0, p - ksize \div 2)

\* the array the positioned kernel is built in, were it the signal itself
WorkArrayAlias(sig) == [array |-> sig, shared |-> TRUE]

\* line 136: np.zeros_like(signal) is a new array, not shared with signal
WorkArray(sig) == [array |-> Zeros(Length(sig.num)), shared |-> FALSE]

\* the positioned kernel placed without np.flip
PositionedUnflipped(p, sig, ker) ==
    LET ksize == Length(ker.num)
        kernel_start == Max(0, p - ksize \div 2)
        kernel_end == Min(Length(sig.num), p + ksize \div 2 + 1)
        k_start == Max(0, ksize \div 2 - p)
        k_end == k_start + (kernel_end - kernel_start)
    IN  IF k_end > k_start
        THEN SliceAssign(WorkArray(sig).array, kernel_start, kernel_end,
                         Slice(ker, k_start, k_end))
        ELSE [ok |-> TRUE, value |-> WorkArray(sig).array]

\* lines 132-141
Positioned(p, sig, ker) ==
    LET ksize == Length(ker.num)
        kernel_start == Max(0, p - ksize \div 2)
        kernel_end == Min(Length(sig.num), p + ksize \div 2 + 1)
        k_start == Max(0, ksize \div 2 - p)
        k_end == k_start + (kernel_end - kernel_start)
    IN  IF k_end > k_start
        THEN SliceAssign(WorkArray(sig).array, kernel_start, kernel_end,
                         Slice(Flip(ker), k_start, k_end))
        ELSE [ok |-> TRUE, value |-> WorkArray(sig).array]

\* the revealed prefix without the current index
RevealedShort(p, conv) == [x |-> Range(p), y |-> Slice(conv, 0, p)]

\* line 148
Revealed(p, conv) == [x |-> Range(p + 1), y |-> Slice(conv, 0, p + 1)]

\* line 149
CurrentPoint(p, conv) ==
    [x |-> [i \in {0} |-> p],
     y |-> [num |-> [i \in {0} |-> conv.num[p]], den |-> conv.den]]

---------------------------------------------------------------------------
(* FuncAnimation(fig, animate, frames=len(signal), interval=100,           *)
(*               blit=True, repeat=True)                                   *)

\* a frame sequence that skips every other index
NextFrameSkip(f, frames) == (f + 2) % frames

\* the frame after f in range(frames), starting over when exhausted
NextFrame(f, frames) == IF f + 1 < frames THEN f + 1 ELSE 0

---------------------------------------------------------------------------
(* Actions *)

\* a parser that accepts any value that is present
ParseAcceptsAny(v) == v # Absent

\* parse_args: --kernel is required and must be one of the choices
ParseAccepts(v) == v # Absent /\ v \in Choices

\* line 173
ParseArgs ==
    /\ pc = "start"
    /\ IF ParseAccepts(argv)
       THEN /\ args_kernel' = argv
            /\ pc' = "parsed"
            /\ UNCHANGED exit_status
       ELSE /\ pc' = "exit"
            /\ exit_status' = ArgparseErrorStatus
            /\ UNCHANGED args_kernel
    /\ UNCHANGED <<argv, main_signal, kernels, kernel_name, kernel, signal,
                   convolution, window_patch, kernel_line, conv_line,
                   current_point, positioned_kernel, pos, frame_seq, passes,
                   create_calls, conv_calls, display>>

\* line 175
MainCreateData ==
    /\ pc = "parsed"
    /\ main_signal' = create_demo_data.signal
    /\ kernels' = create_demo_data.kernels
    /\ create_calls' = create_calls + 1
    /\ pc' = "data"
    /\ UNCHANGED <<argv, args_kernel, exit_status, kernel_name, kernel,
                   signal, convolution, window_patch, kernel_line, conv_line,
                   current_point, positioned_kernel, pos, frame_seq, passes,
                   conv_calls, display>>

\* lines 178-186
SelectKernel ==
    /\ pc = "data"
    /\ kernel_name' = IF args_kernel \in Choices
                      THEN kernel_map[args_kernel] ELSE args_kernel
    /\ kernel' = IF kernel_name' \in DOMAIN kernels
                 THEN kernels[kernel_name'] ELSE Null
    /\ pc' = "selected"
    /\ UNCHANGED <<argv, args_kernel, exit_status, main_signal, kernels,
                   signal, convolution, window_patch, kernel_line, conv_line,
                   current_point, positioned_kernel, pos, frame_seq, passes,
                   create_calls, conv_calls, display>>

\* line 187 and lines 59-158
ConvolutionAnimation ==
    /\ pc = "selected"
    /\ signal' = create_demo_data.signal
    /\ create_calls' = create_calls + 1
    /\ convolution' = ConvolveSame(signal', kernel)
    /\ conv_calls' = conv_calls + 1
    /\ window_patch' = [x |-> 0, width |-> Length(kernel.num)]
    /\ kernel_line' = NoData
    /\ conv_line' = NoData
    /\ current_point' = NoData
    /\ frame_seq' = 0
    /\ pc' = "built"
    /\ UNCHANGED <<argv, args_kernel, exit_status, main_signal, kernels,
                   kernel_name, kernel, positioned_kernel, pos, passes,
                   display>>

\* line 189: plt.show() opens the display and runs the event loop
Show ==
    /\ pc = "built"
    /\ display' = "open"
    /\ pc' = "show"
    /\ UNCHANGED <<argv, args_kernel, exit_status, main_signal, kernels,
                   kernel_name, kernel, signal, convolution, window_patch,
                   kernel_line, conv_line, current_point, positioned_kernel,
                   pos, frame_seq, passes, create_calls, conv_calls>>

\* one timer tick of FuncAnimation: the next index of the frame sequence is
\* handed to the callback and the sequence moves on, starting over after
\* the last frame
DeliverFrame ==
    /\ pc = "show"
    /\ pos' = frame_seq
    /\ frame_seq' = NextFrame(frame_seq, Length(signal.num))
    /\ passes' = IF frame_seq + 1 < Length(signal.num)
                 THEN passes ELSE Min(passes + 1, MaxPasses)

\* the tick together with the call animate(frame), lines 123-151; an
\* exception raised in the callback ends the script
Animate ==
    /\ DeliverFrame
    /\ window_patch' =
         [window_patch EXCEPT !.x = WindowStart(pos', Length(kernel.num))]
    /\ positioned_kernel' = Positioned(pos', signal, kernel).value
    /\ signal' = IF WorkArray(signal).shared THEN positioned_kernel' ELSE signal
    /\ kernel_line' =
         [x |-> Range(Length(signal.num)),
          y |-> MulScalar(positioned_kernel', ScaleNum, ScaleDen)]
    /\ IF pos' \in DOMAIN convolution.num /\ Positioned(pos', signal, kernel).ok
       THEN /\ conv_line' = Revealed(pos', convolution)
            /\ current_point' = CurrentPoint(pos', convolution)
            /\ pc' = "show"
            /\ UNCHANGED exit_status
       ELSE /\ pc' = "exit"
            /\ exit_status' = 1
            /\ UNCHANGED <<conv_line, current_point>>
    /\ UNCHANGED <<argv, args_kernel, main_signal, kernels, kernel_name,
                   kernel, convolution, create_calls, conv_calls, display>>

\* the caller closes the display: plt.show() returns and the script ends
CloseWindow ==
    /\ pc = "show"
    /\ display' = "closed"
    /\ pc' = "exit"
    /\ exit_status' = 0
    /\ UNCHANGED <<argv, args_kernel, main_signal, kernels, kernel_name,
                   kernel, signal, convolution, window_patch, kernel_line,
                   conv_line, current_point, positioned_kernel, pos,
                   frame_seq, passes, create_calls, conv_calls>>

---------------------------------------------------------------------------
(* Specifications *)

Blank ==
    /\ args_kernel = Absent
    /\ exit_status = NoStatus
    /\ main_signal = Null
    /\ kernels = [n \in {} |-> Null]
    /\ signal = Null
    /\ convolution = Null
    /\ window_patch = [x |-> 0, width |-> 0]
    /\ kernel_line = NoData
    /\ conv_line = NoData
    /\ current_point = NoData
    /\ positioned_kernel = Null
    /\ pos = NoFrame
    /\ frame_seq = 0
    /\ passes = 0
    /\ create_calls = 0
    /\ conv_calls = 0
    /\ display = "none"

\* the script is run with some --kernel value, or with none
Init ==
    /\ pc = "start"
    /\ argv \in Args
    /\ kernel_name = Absent
    /\ kernel = Null
    /\ Blank

Next ==
    \/ ParseArgs
    \/ MainCreateData
    \/ SelectKernel
    \/ ConvolutionAnimation
    \/ Show
    \/ Animate
    \/ CloseWindow

Spec == Init /\ [][Next]_vars

\* the script's steps up to plt.show()
Startup ==
    \/ ParseArgs
    \/ MainCreateData
    \/ SelectKernel
    \/ ConvolutionAnimation
    \/ Show

NextOpen ==
    \/ Startup
    \/ Animate

\* the display is never closed.  The script runs on, and while the display is
\* open the timer (interval=100) keeps firing: the steps that deliver a frame
\* are exactly the Animate steps.
LiveSpec ==
    /\ Init
    /\ [][NextOpen]_vars
    /\ WF_vars(Startup)
    /\ WF_<<pos, frame_seq, passes>>(DeliverFrame)

\* a kernel that is 1 at index k and 0 elsewhere
Impulse(k) ==
    [num |-> [i \in 0..(kernel_size - 1) |-> IF i = k THEN 1 ELSE 0],
     den |-> 1]

LibKernels ==
    {boxcar, gaussian, exponential} \cup {Impulse(k) : k \in 0..(kernel_size - 1)}

\* convolution_animation called directly with a kernel of length kernel_size
InitLib ==
    /\ pc = "selected"
    /\ argv = Absent
    /\ kernel_name = "custom"
    /\ kernel \in LibKernels
    /\ Blank

NextLib ==
    \/ ConvolutionAnimation
    \/ Show
    \/ Animate
    \/ CloseWindow

SpecLib == InitLib /\ [][NextLib]_vars

---------------------------------------------------------------------------
(* Properties *)

\* the rationals n1/d1 and n2/d2 are equal (d1, d2 > 0)
RatEq(n1, d1, n2, d2) ==
    LET g1 == GCD(Abs(n1), d1)
        g2 == GCD(Abs(n2), d2)
    IN  n1 \div g1 = n2 \div g2 /\ d1 \div g1 = d2 \div g2

FrameDrawn == pos # NoFrame

\* C1: at every frame pos the highlighted window starts at max(0, pos - 7),
\* which is 0 at frame 0 and never negative; its width stays 15, so from
\* frame 93 on its right end start + 15 lies beyond the signal length 100.
C1_WindowClampedLeftOnly ==
    FrameDrawn =>
        /\ window_patch.x = (IF pos - 7 > 0 THEN pos - 7 ELSE 0)
        /\ window_patch.x >= 0
        /\ (pos = 0 => window_patch.x = 0)
        /\ window_patch.width = 15
        /\ (pos >= 93 => window_patch.x + window_patch.width > 100)

C1_Witness ==
    /\ pos = 99
    /\ window_patch.x = 92
    /\ window_patch.x + window_patch.width = 107

\* the signal is the 100-entry spike train of the specification
IsDemoSignal(s) ==
    /\ DOMAIN s.num = 0..99
    /\ s.den > 0
    /\ {i \in 0..99 : s.num[i] # 0}
         = {15, 35, 75} \cup {48, 50, 52} \cup {85, 87, 88, 90}
    /\ Cardinality({i \in 0..99 : s.num[i] # 0}) = 10
    /\ \A i \in 0..99 : s.num[i] = 0 \/ s.num[i] = s.den

\* C4: the Signal has length 100 and exactly 10 nonzero entries, at 15, 35,
\* 75, at 48, 50, 52 and at 85, 87, 88, 90, each equal to 1.0, and every
\* other entry is exactly 0.0.
C4_SignalSpikes ==
    /\ (main_signal # Null => IsDemoSignal(main_signal))
    /\ (signal # Null => IsDemoSignal(signal))

C4_Witness ==
    /\ create_calls = 2
    /\ main_signal # Null
    /\ signal # Null
    /\ signal.num[90] = signal.den

\* k is the boxcar kernel of the specification
IsBoxcar(k) ==
    /\ DOMAIN k.num = 0..14
    /\ k.den > 0
    /\ \A i \in 0..8 : k.num[i] # 0 /\ k.num[i] = k.num[0] /\ 9 * k.num[i] = k.den
    /\ \A i \in 9..14 : k.num[i] = 0
    /\ SumTo(k.num, 15) = k.den

\* C5: the boxcar kernel returned by the generator has 15 elements, the
\* first 9 equal and nonzero (each 1/9), the remaining 6 exactly 0, and it
\* sums to 1; it is the kernel the animation gets for --kernel boxcar.
C5_BoxcarKernel ==
    /\ ("Boxcar (Uniform)" \in DOMAIN kernels => IsBoxcar(kernels["Boxcar (Uniform)"]))
    /\ (args_kernel = "boxcar" /\ kernel # Null => IsBoxcar(kernel))

C5_Witness ==
    /\ argv = "boxcar"
    /\ pc = "show"
    /\ kernel = kernels["Boxcar (Uniform)"]
    /\ 9 * kernel.num[8] = kernel.den
    /\ kernel.num[9] = 0

\* k has 15 non-negative elements that sum to 1 within 1e-9
IsNormalized(k) ==
    /\ DOMAIN k.num = 0..14
    /\ k.den > 0
    /\ \A i \in 0..14 : k.num[i] >= 0
    /\ Abs(SumTo(k.num, 15) - k.den) <= k.den \div 1000000000

\* C6: each of the three generated kernels (boxcar, Gaussian, exponential)
\* has length 15, no negative element, and elements that sum to 1 within
\* the tolerance 1e-9.
C6_KernelsNormalized ==
    /\ DOMAIN kernels \in
         {{}, {"Boxcar (Uniform)", "Gaussian", "Exponential (Calcium-like)"}}
    /\ \A n \in DOMAIN kernels : IsNormalized(kernels[n])
    /\ (args_kernel \in Choices /\ kernel # Null => IsNormalized(kernel))

C6_Witness ==
    /\ argv = "gaussian"
    /\ pc = "show"
    /\ kernel = kernels["Gaussian"]
    /\ kernel.num[7] > kernel.num[0]
    /\ kernel.num[0] > 0
    /\ SumTo(kernel.num, 15) = kernel.den

\* what an animation step may do to the index of the last delivered frame
FrameStep ==
    \/ pos' = pos
    \/ pos = NoFrame /\ pos' = 0
    \/ pos \in 0..98 /\ pos' = pos + 1
    \/ pos = 99 /\ pos' = 0

RejectedAtStartup ==
    /\ pc = "exit"
    /\ exit_status # 0
    /\ exit_status # NoStatus
    /\ create_calls = 0
    /\ conv_calls = 0
    /\ display = "none"
    /\ main_signal = Null /\ signal = Null /\ convolution = Null
    /\ pos = NoFrame

\* C3: a --kernel value other than boxcar, gaussian or exponential is
\* rejected by the parser before any computation: the process ends with a
\* non-zero status and create_demo_data, the convolution and the display are
\* never reached; each of the three accepted values reaches the animation.
C3_InvalidKernelRejected ==
    /\ [](argv \notin {"boxcar", "gaussian", "exponential"} /\ pc # "start"
            => RejectedAtStartup)
    /\ [](argv \in {"boxcar", "gaussian", "exponential"} => pc # "exit")
    /\ [](argv \in {"boxcar", "gaussian", "exponential"}
            => <>(pc = "show" /\ display = "open" /\ FrameDrawn))

C3_Witness ==
    /\ argv = "unknown"
    /\ pc = "exit"
    /\ exit_status = 2
    /\ create_calls = 0
    /\ display = "none"

\* C7: Signal and Kernel never change once created and the convolution is
\* computed once per run: every frame callback leaves signal, kernel and
\* convolution as they were and rewrites only the per-frame display state.
C7_DataImmutable ==
    /\ [][/\ (signal # Null => signal' = signal)
          /\ (main_signal # Null => main_signal' = main_signal)
          /\ (kernel # Null => kernel' = kernel)
          /\ (convolution # Null => convolution' = convolution)
          /\ (pos' # pos =>
                UNCHANGED <<signal, main_signal, kernels, kernel, convolution,
                            conv_calls, create_calls>>)]_vars
    /\ [](conv_calls <= 1)
    /\ [](display # "none" => conv_calls = 1)

C7_Witness ==
    /\ passes >= 1
    /\ pos = 50
    /\ conv_calls = 1
    /\ positioned_kernel # Null
    /\ signal = main_signal

\* C8: at every frame the positioned kernel has the length of Signal (100),
\* is zero outside the window, and holds the reversed kernel centred on
\* pos, positioned[j] = kernel[pos + 7 - j] for pos - 7 <= j <= pos + 7;
\* the slice assignment never fails on mismatched lengths.
C8_PositionedKernel ==
    FrameDrawn =>
        /\ exit_status # 1
        /\ DOMAIN positioned_kernel.num = 0..99
        /\ \A j \in 0..99 :
             IF pos - 7 <= j /\ j <= pos + 7
             THEN RatEq(positioned_kernel.num[j], positioned_kernel.den,
                        kernel.num[pos + 7 - j], kernel.den)
             ELSE positioned_kernel.num[j] = 0

C8_Witness ==
    /\ pos = 99
    /\ kernel = Impulse(14)
    /\ positioned_kernel.num[92] # 0
    /\ \A j \in 0..99 : j # 92 => positioned_kernel.num[j] = 0

\* C9: at every frame the revealed output is the prefix convolution[0..pos]
\* (pos + 1 points) and the current point is (pos, convolution[pos]); the
\* prefix grows by one point per frame, is the full 100-point output at
\* frame 99, and is one point long again when the animation restarts.
C9_RevealedPrefix ==
    /\ [](FrameDrawn =>
            /\ conv_line.x = [i \in 0..pos |-> i]
            /\ DOMAIN conv_line.y.num = 0..pos
            /\ conv_line.y.den = convolution.den
            /\ \A i \in 0..pos : conv_line.y.num[i] = convolution.num[i]
            /\ current_point.x = [i \in {0} |-> pos]
            /\ current_point.y.num = [i \in {0} |-> convolution.num[pos]]
            /\ current_point.y.den = convolution.den
            /\ (pos = 99 => DOMAIN conv_line.y.num = DOMAIN convolution.num))
    /\ [][pos' # pos =>
            IF pos' = 0
            THEN /\ Length(conv_line'.y.num) = 1
                 /\ (FrameDrawn => pos = 99 /\ Length(conv_line.y.num) = 100)
            ELSE Length(conv_line'.y.num) = Length(conv_line.y.num) + 1]_vars

C9_Witness ==
    /\ passes >= 1
    /\ pos = 0
    /\ Length(conv_line.y.num) = 1
    /\ Length(convolution.num) = 100

\* C10: at every frame the dot product of Signal with the unscaled
\* positioned kernel equals convolution[pos], and convolution[pos] is the
\* same-mode sum over j of signal[j] * kernel[pos + 7 - j], terms with a
\* kernel index outside 0..14 left out.
C10_OverlayMatchesOutput ==
    FrameDrawn =>
        /\ RatEq(SumTo([j \in 0..99 |-> signal.num[j] * positioned_kernel.num[j]],
                       100),
                 signal.den * positioned_kernel.den,
                 convolution.num[pos], convolution.den)
        /\ RatEq(SumTo([j \in 0..99 |->
                          IF 0 <= pos + 7 - j /\ pos + 7 - j <= 14
                          THEN signal.num[j] * kernel.num[pos + 7 - j] ELSE 0],
                       100),
                 signal.den * kernel.den,
                 convolution.num[pos], convolution.den)

C10_Witness ==
    /\ pos = 97
    /\ kernel = Impulse(14)
    /\ convolution.num[97] # 0
    /\ positioned_kernel.num[90] # 0

====
